---- MODULE Spec2Model ----
(***************************************************************************)
(* A model of src/app.py: the Syqlorix application object `doc`, its three *)
(* registrations (the development proxy mapping and the two routes), the   *)
(* page handler main_page and the feed handler pagasa_proxy.               *)
(*                                                                         *)
(* A request is followed from its arrival to its response.  pagasa_proxy   *)
(* is split where it blocks (urlopen, line 657) and where it leaves the    *)
(* try block (lines 661 and 663), so that requests handled at the same     *)
(* time interleave there.  Bodies are sequences of bytes; the text decoded *)
(* from them is a sequence of code points.                                 *)
(***************************************************************************)
EXTENDS Integers, Sequences, FiniteSets, TLC

\* ------------------------------------------------------------------ bounds

\* Requests that may be in the server at the same time.
MaxReqs == 2
\* Longest upstream body, in bytes.
MaxLen == 3
Reqs == 1..MaxReqs

\* ------------------------------------------------------------------ values

\* Paths are their segments: "/" is <<>>, "/api/pagasa-proxy" is
\* <<"api", "pagasa-proxy">>.
RootPath == <<>>
ProxyPath == <<"api", "pagasa-proxy">>
Paths == {RootPath, ProxyPath, ProxyPath \o <<"x">>, <<"other">>}

\* What a caller can vary: the query string and a header.
Queries == {"", "url=http://evil/"}
Requests == [path : Paths, query : Queries]
NoRequest == [path |-> <<"-">>, query |-> ""]

\* Bytes of upstream bodies: '<', the two bytes of U+00E9, the three bytes
\* of U+20AC, and 0xFF, which no UTF-8 text holds.
ByteVals == {60, 195, 169, 226, 130, 172, 255}

RECURSIVE SeqsUpTo(_, _)
SeqsUpTo(S, n) ==
    IF n = 0 THEN {<<>>}
    ELSE LET shorter == SeqsUpTo(S, n - 1)
         IN  shorter \cup {Append(s, x) : s \in {t \in shorter : Len(t) = n - 1}, x \in S}

AllBodies == SeqsUpTo(ByteVals, MaxLen)

\* Status codes an upstream answers with.
Statuses == {200, 204, 302, 404, 503}
\* Content types an upstream declares.
CTypes == {"application/atom+xml", "text/html"}

\* ------------------------------------------------------------ UTF-8 text

IsCont(b) == 128 <= b /\ b <= 191

\* The length of the UTF-8 form starting at bs[i], 0 when bs[i..] starts no
\* well-formed form (bytes.decode('utf-8') is strict: no overlong forms, no
\* surrogates, nothing above U+10FFFF).
FormLen(bs, i) ==
    LET b == bs[i]
        n == Len(bs)
    IN  IF b < 128 THEN 1
        ELSE IF 194 <= b /\ b <= 223
             THEN IF i + 1 <= n /\ IsCont(bs[i + 1]) THEN 2 ELSE 0
        ELSE IF 224 <= b /\ b <= 239
             THEN IF /\ i + 2 <= n
                     /\ IsCont(bs[i + 1]) /\ IsCont(bs[i + 2])
                     /\ (b = 224 => bs[i + 1] >= 160)
                     /\ (b = 237 => bs[i + 1] <= 159)
                  THEN 3 ELSE 0
        ELSE IF 240 <= b /\ b <= 244
             THEN IF /\ i + 3 <= n
                     /\ IsCont(bs[i + 1]) /\ IsCont(bs[i + 2]) /\ IsCont(bs[i + 3])
                     /\ (b = 240 => bs[i + 1] >= 144)
                     /\ (b = 244 => bs[i + 1] <= 143)
                  THEN 4 ELSE 0
        ELSE 0

\* The code point of the form of length k starting at bs[i].
CodePoint(bs, i, k) ==
    CASE k = 1 -> bs[i]
      [] k = 2 -> (bs[i] - 192) * 64 + (bs[i + 1] - 128)
      [] k = 3 -> (bs[i] - 224) * 4096 + (bs[i + 1] - 128) * 64 + (bs[i + 2] - 128)
      [] k = 4 -> (bs[i] - 240) * 262144 + (bs[i + 1] - 128) * 4096
                    + (bs[i + 2] - 128) * 64 + (bs[i + 3] - 128)

RECURSIVE ValidFrom(_, _)
ValidFrom(bs, i) ==
    IF i > Len(bs) THEN TRUE
    ELSE LET k == FormLen(bs, i)
         IN  k > 0 /\ ValidFrom(bs, i + k)

\* Whether bytes.decode('utf-8') returns (it raises UnicodeDecodeError
\* otherwise).
DecodeOk(bs) == ValidFrom(bs, 1)

RECURSIVE DecodeFrom(_, _)
DecodeFrom(bs, i) ==
    IF i > Len(bs) THEN <<>>
    ELSE LET k == FormLen(bs, i)
         IN  <<CodePoint(bs, i, k)>> \o DecodeFrom(bs, i + k)

\* A variant decoder: every byte is one code point (latin-1).
DecodeLatin1(bs) == bs

\* bytes.decode('utf-8') of a well-formed body: its code points.
Decode(bs) == DecodeFrom(bs, 1)

\* The UTF-8 form of one code point.
EncodePoint(c) ==
    IF c < 128 THEN <<c>>
    ELSE IF c < 2048 THEN <<192 + (c \div 64), 128 + (c % 64)>>
    ELSE IF c < 65536
         THEN <<224 + (c \div 4096), 128 + ((c \div 64) % 64), 128 + (c % 64)>>
    ELSE <<240 + (c \div 262144), 128 + ((c \div 4096) % 64),
           128 + ((c \div 64) % 64), 128 + (c % 64)>>

RECURSIVE Encode(_)
\* The bytes a text is sent as.
Encode(text) ==
    IF text = <<>> THEN <<>>
    ELSE EncodePoint(Head(text)) \o Encode(Tail(text))

\* ------------------------------------------------------------ upstream

\* What the network gives one outbound call: an HTTP response (its status,
\* body and declared content type; cut: the connection breaks while the
\* body is read), or no response at all (a connection error, a timeout).
NoOutcome == [kind |-> "none", status |-> 0, body |-> <<>>, ctype |-> "", cut |-> FALSE]
NetFailures ==
    {[kind |-> k, status |-> 0, body |-> <<>>, ctype |-> "", cut |-> FALSE] :
        k \in {"URLError", "timeout"}}
HttpOutcomes(B) ==
    [kind : {"http"}, status : Statuses, body : B, ctype : CTypes, cut : BOOLEAN]

\* Every outcome, over all bodies of at most MaxLen bytes.
AllOutcomes == HttpOutcomes(AllBodies) \cup NetFailures

Http(st, b, ct, c) == [kind |-> "http", status |-> st, body |-> b, ctype |-> ct, cut |-> c]

\* A few outcomes of each sort, for the runs with several requests.
FewOutcomes ==
    { Http(200, <<60>>, "application/atom+xml", FALSE),
      Http(200, <<195, 169>>, "text/html", FALSE),
      Http(204, <<>>, "text/html", FALSE),
      Http(200, <<195>>, "application/atom+xml", FALSE),
      Http(200, <<60>>, "application/atom+xml", TRUE),
      Http(404, <<60>>, "text/html", FALSE) } \cup NetFailures

\* One body under each declared content type, a body that is no text, and a
\* connection error.
PairOutcomes ==
    { Http(200, <<60>>, "application/atom+xml", FALSE),
      Http(200, <<60>>, "text/html", FALSE),
      Http(200, <<195>>, "application/atom+xml", FALSE),
      [kind |-> "URLError", status |-> 0, body |-> <<>>, ctype |-> "", cut |-> FALSE] }

\* ------------------------------------------------------------ responses

AtomXml == "application/atom+xml"
ErrorJson == {<<"error", "Failed to fetch PAGASA data">>}
\* The rendered page document and the not-found page stand for their bytes:
\* "<!D..." and "404".
PageDoc == <<60, 33, 68>>
NotFoundDoc == <<52, 48, 52>>

\* A response: status, content type ("" when the handler names none), body
\* bytes, and the JSON object sent instead of a text body ({} when none).
NoResponse == [status |-> 0, ctype |-> "", body |-> <<>>, json |-> {}]
Response(st, ct, b, j) == [status |-> st, ctype |-> ct, body |-> b, json |-> j]

\* ------------------------------------------------------------ registrations

FeedsTarget == "https://publicalert.pagasa.dost.gov.ph/feeds"

\* A variant table without the development proxy mapping.
RoutesOnly ==
    { [kind |-> "route", path |-> RootPath, to |-> "main_page"],
      [kind |-> "route", path |-> ProxyPath, to |-> "pagasa_proxy"] }

\* What the module registers on `doc` while it is loaded: doc.proxy (line 6)
\* and the two @doc.route decorators (lines 8 and 645).
Registrations ==
    { [kind |-> "proxy", path |-> ProxyPath, to |-> FeedsTarget],
      [kind |-> "route", path |-> RootPath, to |-> "main_page"],
      [kind |-> "route", path |-> ProxyPath, to |-> "pagasa_proxy"] }

IsPrefix(p, q) == Len(p) <= Len(q) /\ SubSeq(q, 1, Len(p)) = p

\* A variant match: a route serves every path below its own.
RouteMatchesBelow(reg, path) == IsPrefix(reg.path, path)

\* A route serves the path it was registered with, nothing else.
RouteMatches(reg, path) == reg.path = path

\* A variant mapping: the proxy serves every path.
ProxyMatchesAll(reg, path) == TRUE

\* The proxy mapping serves its path and every path below it.
ProxyMatches(reg, path) == IsPrefix(reg.path, path)

RoutesFor(table, path) == {g \in table : g.kind = "route" /\ RouteMatches(g, path)}
ProxiesFor(table, path) == {g \in table : g.kind = "proxy" /\ ProxyMatches(g, path)}

\* The handler of a path: the route registered for it; failing that the
\* development proxy whose prefix covers it; failing that, not found.
Dispatch(table, path) ==
    IF RoutesFor(table, path) # {}
    THEN (CHOOSE g \in RoutesFor(table, path) : TRUE).to
    ELSE IF ProxiesFor(table, path) # {} THEN "dev_proxy"
    ELSE "not_found"

\* ------------------------------------------------------------ handlers

\* A variant page handler: a request with a query string is refused.
PageUnlessQuery(rq) ==
    IF rq.query = "" THEN Response(200, "text/html", PageDoc, {})
    ELSE Response(400, "text/plain", <<>>, {})

\* main_page (lines 8-642): the page document, whatever the request holds;
\* a handler that returns a document alone is answered 200, text/html.
main_page(rq) == Response(200, "text/html", PageDoc, {})

\* The answer to a path nothing is registered for.
NotFoundResponse == Response(404, "text/html", NotFoundDoc, {})

UserAgent == "Mozilla/5.0 (Windows NT 10.0; Win64; x64) AppleWebKit/537.36"

\* A variant URL: the caller's query string is forwarded.
FeedUrlWithQuery(rq) ==
    [base |-> "https://publicalert.pagasa.dost.gov.ph/feeds/", rest |-> <<>>, query |-> rq.query]

\* Line 651: the URL pagasa_proxy fetches.
FeedUrl(rq) ==
    [base |-> "https://publicalert.pagasa.dost.gov.ph/feeds/", rest |-> <<>>, query |-> ""]

\* A variant call that carries no User-Agent header.
BareRequest(rq) == [url |-> FeedUrl(rq), headers |-> {}]

\* Lines 654-655: the outbound request as urlopen is given it.
BuildRequest(rq) == [url |-> FeedUrl(rq), headers |-> {<<"User-Agent", UserAgent>>}]

\* The development proxy's outbound request: its target, then what follows
\* the prefix in the path.
ForwardRequest(rq) ==
    [url |-> [base |-> FeedsTarget,
              rest |-> SubSeq(rq.path, Len(ProxyPath) + 1, Len(rq.path)),
              query |-> rq.query],
     headers |-> {}]

\* A variant of urlopen's error rule: only server errors raise.
RaisesOnServerError(st) == st >= 500

\* urlopen raises HTTPError for a final status outside 200..299.
RaisesHTTPError(st) == ~(200 <= st /\ st < 300)

\* The bytes response.read() has in hand: the whole body, or, when the
\* connection breaks while the body is read, the body less its end.
Received(o) ==
    IF o.cut /\ Len(o.body) > 0 THEN SubSeq(o.body, 1, Len(o.body) - 1) ELSE o.body

\* A variant read: a body cut short is taken as it came.
RaisedUnlessCut(o) ==
    IF o.kind # "http" THEN o.kind
    ELSE IF RaisesHTTPError(o.status) THEN "HTTPError"
    ELSE IF ~DecodeOk(Received(o)) THEN "UnicodeDecodeError"
    ELSE "none"

\* Lines 657-658: the exception that urlopen, read or decode raises on an
\* outcome, "none" when all three return.
Raised(o) ==
    IF o.kind # "http" THEN o.kind
    ELSE IF RaisesHTTPError(o.status) THEN "HTTPError"
    ELSE IF o.cut THEN "IncompleteRead"
    ELSE IF ~DecodeOk(Received(o)) THEN "UnicodeDecodeError"
    ELSE "none"

\* A variant handler clause: except urllib.error.URLError.
CatchesURLErrorOnly(e) == e \in {"URLError", "HTTPError"}

\* Line 663, `except Exception`: every exception lines 651-661 raise is an
\* Exception (URLError, HTTPError and the timeout are OSErrors,
\* IncompleteRead an HTTPException, UnicodeDecodeError a ValueError).
Catches(e) ==
    e \in {"URLError", "timeout", "HTTPError", "IncompleteRead", "UnicodeDecodeError"}

\* A variant log line: the cause is left out.
LogLineNoCause(e) == <<"Proxy error", "">>

\* Line 664: the line printed, "Proxy error: " and the exception.
LogLine(e) == <<"Proxy error", e>>

\* A variant return: the upstream's content type is kept.
KeepUpstreamType(text, o) == Response(200, o.ctype, Encode(text), {})

\* A variant return: the upstream's status and content type are relayed.
RelayUpstreamStatus(text, o) == Response(o.status, o.ctype, Encode(text), {})

\* Line 661: the handler's value on success, the text sent as its bytes.
OnSuccess(text, o) == Response(200, AtomXml, Encode(text), {})

\* A variant error value: the cause is shown to the caller.
ErrorWithCause(e) == Response(500, "", <<>>, {<<"error", e>>})

\* Line 665: the handler's value once an exception is caught.
OnFailure(e) == Response(500, "", <<>>, ErrorJson)

\* The development proxy relays what its target answered.
DevProxyResponse(o) ==
    IF o.kind = "http" /\ ~o.cut
    THEN Response(o.status, o.ctype, o.body, {})
    ELSE Response(502, "text/plain", <<>>, {})

\* A variant frame: one set of locals for all requests.
SharedFrame(r) == 1

\* The frame holding the locals of the call handling request r: every call
\* of pagasa_proxy has its own.
Frame(r) == r

\* ------------------------------------------------------------ state

VARIABLES
    routes,     \* doc's registrations
    pc,         \* where the handling of each request stands
    request,    \* the request in each slot
    handler,    \* the handler the request was dispatched to
    redirected, \* whether the request's urlopen call followed a redirect
    up,         \* what the upstream gave the request's outbound call
    xml_data,   \* pagasa_proxy's local xml_data, by frame
    exc,        \* pagasa_proxy's caught exception e, by frame
    resp,       \* the response sent for the request
    calls,      \* the outbound calls made while handling the request
    log         \* the lines printed while handling the request

vars == <<routes, pc, request, handler, redirected, up, xml_data, exc, resp, calls, log>>

Init ==
    /\ routes = Registrations
    /\ pc = [r \in Reqs |-> "new"]
    /\ request = [r \in Reqs |-> NoRequest]
    /\ handler = [r \in Reqs |-> "none"]
    /\ redirected = [r \in Reqs |-> FALSE]
    /\ up = [r \in Reqs |-> NoOutcome]
    /\ xml_data = [r \in Reqs |-> <<>>]
    /\ exc = [r \in Reqs |-> "none"]
    /\ resp = [r \in Reqs |-> NoResponse]
    /\ calls = [r \in Reqs |-> <<>>]
    /\ log = [r \in Reqs |-> <<>>]

\* A request arrives and the router picks its handler.
Arrive(r) ==
    /\ pc[r] = "new"
    /\ \E rq \in Requests :
        /\ request' = [request EXCEPT ![r] = rq]
        /\ handler' = [handler EXCEPT ![r] = Dispatch(routes, rq.path)]
    /\ pc' = [pc EXCEPT ![r] = "dispatched"]
    /\ UNCHANGED <<routes, redirected, up, xml_data, exc, resp, calls, log>>

\* main_page runs and its value is sent.
MainPage(r) ==
    /\ pc[r] = "dispatched" /\ handler[r] = "main_page"
    /\ resp' = [resp EXCEPT ![r] = main_page(request[r])]
    /\ pc' = [pc EXCEPT ![r] = "done"]
    /\ UNCHANGED <<routes, request, handler, redirected, up, xml_data, exc, calls, log>>

\* Nothing is registered for the path.
NotFound(r) ==
    /\ pc[r] = "dispatched" /\ handler[r] = "not_found"
    /\ resp' = [resp EXCEPT ![r] = NotFoundResponse]
    /\ pc' = [pc EXCEPT ![r] = "done"]
    /\ UNCHANGED <<routes, request, handler, redirected, up, xml_data, exc, calls, log>>

\* pagasa_proxy, lines 646-657: the request is built, the header added, and
\* urlopen is called; the handler blocks in it.
ProxyCall(r) ==
    /\ pc[r] = "dispatched" /\ handler[r] = "pagasa_proxy"
    /\ calls' = [calls EXCEPT ![r] = Append(@, BuildRequest(request[r]))]
    /\ pc' = [pc EXCEPT ![r] = "urlopen"]
    /\ UNCHANGED <<routes, request, handler, redirected, up, xml_data, exc, resp, log>>

\* Inside urlopen: the answer is a redirect with a Location, which urlopen
\* follows without returning to the handler (a redirect it does not follow
\* is an HTTPError, see Raised).
Redirect(r) ==
    /\ pc[r] = "urlopen"
    /\ ~redirected[r]
    /\ redirected' = [redirected EXCEPT ![r] = TRUE]
    /\ UNCHANGED <<routes, pc, request, handler, up, xml_data, exc, resp, calls, log>>

\* Lines 657-658: urlopen returns or raises; on return the body is read and
\* decoded into xml_data; an exception of any of the three is caught at 663
\* (one the except clause does not name would leave the handler: "escaped").
UrlopenDone(r, O) ==
    /\ pc[r] = "urlopen"
    /\ \E o \in O :
        /\ up' = [up EXCEPT ![r] = o]
        /\ IF Raised(o) = "none"
           THEN /\ xml_data' = [xml_data EXCEPT ![Frame(r)] = Decode(Received(o))]
                /\ pc' = [pc EXCEPT ![r] = "return"]
                /\ UNCHANGED exc
           ELSE IF Catches(Raised(o))
           THEN /\ exc' = [exc EXCEPT ![Frame(r)] = Raised(o)]
                /\ pc' = [pc EXCEPT ![r] = "except"]
                /\ UNCHANGED xml_data
           ELSE /\ pc' = [pc EXCEPT ![r] = "escaped"]
                /\ UNCHANGED <<xml_data, exc>>
    /\ UNCHANGED <<routes, request, handler, redirected, resp, calls, log>>

\* Line 661: the success value is returned and sent.
Return(r) ==
    /\ pc[r] = "return"
    /\ resp' = [resp EXCEPT ![r] = OnSuccess(xml_data[Frame(r)], up[r])]
    /\ pc' = [pc EXCEPT ![r] = "done"]
    /\ UNCHANGED <<routes, request, handler, redirected, up, xml_data, exc, calls, log>>

\* Lines 663-665: the cause is printed and the error value returned.
Except(r) ==
    /\ pc[r] = "except"
    /\ log' = [log EXCEPT ![r] = Append(@, LogLine(exc[Frame(r)]))]
    /\ resp' = [resp EXCEPT ![r] = OnFailure(exc[Frame(r)])]
    /\ pc' = [pc EXCEPT ![r] = "done"]
    /\ UNCHANGED <<routes, request, handler, redirected, up, xml_data, exc, calls>>

\* The development proxy forwards a request below its prefix.
DevProxyCall(r) ==
    /\ pc[r] = "dispatched" /\ handler[r] = "dev_proxy"
    /\ calls' = [calls EXCEPT ![r] = Append(@, ForwardRequest(request[r]))]
    /\ pc' = [pc EXCEPT ![r] = "forward"]
    /\ UNCHANGED <<routes, request, handler, redirected, up, xml_data, exc, resp, log>>

\* The development proxy relays its target's answer.
DevProxyDone(r, O) ==
    /\ pc[r] = "forward"
    /\ \E o \in O :
        /\ up' = [up EXCEPT ![r] = o]
        /\ resp' = [resp EXCEPT ![r] = DevProxyResponse(o)]
    /\ pc' = [pc EXCEPT ![r] = "done"]
    /\ UNCHANGED <<routes, request, handler, redirected, xml_data, exc, calls, log>>

\* The steps of the requests in R, the upstream answering from O.
Next(R, O) ==
    \E r \in R :
        \/ Arrive(r)
        \/ MainPage(r)
        \/ NotFound(r)
        \/ ProxyCall(r)
        \/ Redirect(r)
        \/ UrlopenDone(r, O)
        \/ Return(r)
        \/ Except(r)
        \/ DevProxyCall(r)
        \/ DevProxyDone(r, O)

\* Several requests at a time, in any interleaving.
Spec == Init /\ [][Next(Reqs, FewOutcomes)]_vars

\* One request, the upstream answering with any body of at most MaxLen bytes.
SpecRelay == Init /\ [][Next({1}, AllOutcomes)]_vars

\* Several requests, the upstream answering one body under either content
\* type, or failing.
SpecPair == Init /\ [][Next(Reqs, PairOutcomes)]_vars

\* The handler's thread keeps running: a handler that can take its next step
\* takes it.  The upstream eventually responds or fails: a pending urlopen
\* call ends.
Fairness ==
    \A r \in Reqs :
        /\ WF_vars(ProxyCall(r))
        /\ WF_vars(UrlopenDone(r, PairOutcomes))
        /\ WF_vars(Return(r))
        /\ WF_vars(Except(r))

\* SpecPair with the handler running and the upstream answering.
SpecLive == Init /\ [][Next(Reqs, PairOutcomes)]_vars /\ Fairness

\* ------------------------------------------------------------ properties

\* The code points whose UTF-8 forms are made of ByteVals, and the bodies
\* that are the UTF-8 form of a text of at most MaxLen of them.
TextPoints ==
    {c \in 0..65535 : \A i \in DOMAIN EncodePoint(c) : EncodePoint(c)[i] \in ByteVals}
TextBodies == {Encode(t) : t \in SeqsUpTo(TextPoints, MaxLen)}

\* The upstream call succeeded: a response with a 2xx status whose body
\* arrived whole and is UTF-8 text.
Succeeded(o) ==
    /\ o.kind = "http" /\ o.status \in 200..299
    /\ ~o.cut /\ o.body \in TextBodies

\* The upstream call failed before or after its response: no connection, a
\* timeout, a body cut short, a body that is no UTF-8 text.
FailedToFetch(o) ==
    \/ o.kind \in {"URLError", "timeout"}
    \/ o.kind = "http" /\ o.status \in 200..299 /\ (o.cut \/ o.body \notin TextBodies)

Answered(r, h) == pc[r] = "done" /\ handler[r] = h

TheError == Response(500, "", <<>>, ErrorJson)

\* C1: a request served by pagasa_proxy whose upstream call succeeds is
\* answered 200, application/atom+xml, with the upstream's body byte for
\* byte.
C1_RelayVerbatim ==
    \A r \in Reqs :
        Answered(r, "pagasa_proxy") /\ Succeeded(up[r]) =>
            /\ resp[r].status = 200
            /\ resp[r].ctype = "application/atom+xml"
            /\ resp[r].body = up[r].body
            /\ resp[r].json = {}

\* C1's case: a body with a three-byte character was relayed.
C1_Witness ==
    /\ Answered(1, "pagasa_proxy")
    /\ up[1].body = <<226, 130, 172>>
    /\ Succeeded(up[1])
    /\ resp[1].status = 200

\* C2: a request served by pagasa_proxy whose upstream call fails with a
\* connection error, a timeout, a cut body or a decode error is answered 500
\* with the body {"error": "Failed to fetch PAGASA data"}, the same for
\* every cause.
C2_UniformError ==
    \A r \in Reqs :
        Answered(r, "pagasa_proxy") /\ FailedToFetch(up[r]) =>
            /\ resp[r].status = 500
            /\ resp[r].json = {<<"error", "Failed to fetch PAGASA data">>}
            /\ resp[r].body = <<>>
            /\ resp[r] = TheError

\* C2's case: the body could not be decoded and the error was sent.
C2_Witness ==
    /\ Answered(1, "pagasa_proxy")
    /\ exc[1] = "UnicodeDecodeError"
    /\ up[1].body = <<195>>
    /\ resp[1].status = 500

\* C3 as claimed: every upstream status other than 200 is answered 500.
C3_Original ==
    \A r \in Reqs :
        Answered(r, "pagasa_proxy") /\ up[r].kind = "http" /\ up[r].status # 200 =>
            resp[r].status = 500 /\ resp[r].json = ErrorJson

\* C3, amended: an upstream answer whose final status is outside 200..299 is
\* answered 500 with the fixed error body, never 200; a 2xx status other
\* than 200 counts as success and is answered 200.
C3_NonSuccessStatus ==
    \A r \in Reqs :
        Answered(r, "pagasa_proxy") /\ up[r].kind = "http" =>
            /\ up[r].status \notin 200..299 => resp[r] = TheError
            /\ Succeeded(up[r]) => resp[r].status = 200

\* C3's case: the upstream answered 404 and the error was sent.
C3_Witness ==
    /\ Answered(1, "pagasa_proxy")
    /\ up[1].kind = "http" /\ up[1].status = 404
    /\ resp[1].status = 500

\* The requests whose handling has reached pagasa_proxy's urlopen call.
InProxy(r) == handler[r] = "pagasa_proxy" /\ pc[r] # "dispatched"

RECURSIVE CallCount(_)
\* The outbound calls made for the requests in R.
CallCount(R) ==
    IF R = {} THEN 0
    ELSE LET r == CHOOSE x \in R : TRUE
         IN  Len(calls[r]) + CallCount(R \ {r})

C5_OwnOutcome ==
    \A r \in Reqs :
        Answered(r, "pagasa_proxy") =>
            IF Succeeded(up[r])
            THEN resp[r] = Response(200, AtomXml, up[r].body, {})
            ELSE resp[r] = TheError

\* C5's case: two requests served by pagasa_proxy, one answered with its
\* upstream's body and one with the error.
C5_Witness ==
    /\ Answered(1, "pagasa_proxy") /\ Answered(2, "pagasa_proxy")
    /\ Succeeded(up[1]) /\ resp[1].status = 200 /\ resp[1].body = <<195, 169>>
    /\ ~Succeeded(up[2]) /\ resp[2].status = 500

\* C6: a request to "/" is answered 200, text/html, whatever its headers or
\* query string.
C6_RootPage ==
    \A r \in Reqs :
        pc[r] = "done" /\ request[r].path = RootPath =>
            resp[r].status = 200 /\ resp[r].ctype = "text/html"

\* C6's case: a request to "/" with a query string was answered.
C6_Witness ==
    /\ pc[1] = "done" /\ request[1].path = RootPath
    /\ request[1].query # ""
    /\ resp[1].status = 200

\* No upstream body reached the response: no outbound call was made.
NothingRelayed(r) == up[r] = NoOutcome /\ calls[r] = <<>>

C9_Original ==
    \A r \in Reqs :
        Answered(r, "pagasa_proxy") /\ Succeeded(up[r]) =>
            resp[r].status = up[r].status

\* C9, amended: on success the response's status is 200 whatever 2xx status
\* the upstream returned; the upstream's status is not relayed.
C9_StatusIs200 ==
    \A r \in Reqs :
        Answered(r, "pagasa_proxy") =>
            /\ resp[r].status \in {200, 500}
            /\ Succeeded(up[r]) => resp[r].status = 200

\* C9's case: the upstream answered 204 and the response is 200.
C9_Witness ==
    /\ Answered(1, "pagasa_proxy")
    /\ Succeeded(up[1]) /\ up[1].status = 204
    /\ resp[1].status = 200

\* C10: two requests served by pagasa_proxy that meet the same upstream
\* outcome get identical responses, whatever their headers or query, and
\* both fetched the same fixed URL.
C10_RequestIndependent ==
    \A r1, r2 \in Reqs :
        /\ InProxy(r1) /\ InProxy(r2) => calls[r1] = calls[r2]
        /\ Answered(r1, "pagasa_proxy") /\ Answered(r2, "pagasa_proxy")
             /\ up[r1] = up[r2] => resp[r1] = resp[r2]

\* C10's case: two answered requests with different query strings and the
\* same upstream outcome.
C10_Witness ==
    /\ Answered(1, "pagasa_proxy") /\ Answered(2, "pagasa_proxy")
    /\ request[1].query # request[2].query
    /\ up[1] = up[2] /\ Succeeded(up[1])

\* C11: on success the response's content type is application/atom+xml
\* whatever content type the upstream declared: two successful fetches of
\* the same body under different upstream content types are answered
\* identically.
C11_TypeRewritten ==
    \A r1, r2 \in Reqs :
        Answered(r1, "pagasa_proxy") /\ Answered(r2, "pagasa_proxy")
          /\ Succeeded(up[r1]) /\ Succeeded(up[r2])
          /\ up[r1].body = up[r2].body =>
            /\ resp[r1].ctype = "application/atom+xml"
            /\ resp[r1] = resp[r2]

\* C11's case: the same body fetched as application/atom+xml and as
\* text/html, both answered.
C11_Witness ==
    /\ Answered(1, "pagasa_proxy") /\ Answered(2, "pagasa_proxy")
    /\ Succeeded(up[1]) /\ Succeeded(up[2])
    /\ up[1].body = up[2].body
    /\ up[1].ctype = "application/atom+xml" /\ up[2].ctype = "text/html"

\* The exception an outcome ends in, read off the outcome alone.
CauseOf(o) ==
    CASE o.kind \in {"URLError", "timeout"} -> o.kind
      [] o.kind = "http" /\ o.status \notin 200..299 -> "HTTPError"
      [] o.kind = "http" /\ o.status \in 200..299 /\ o.cut -> "IncompleteRead"
      [] o.kind = "http" /\ o.status \in 200..299 /\ ~o.cut /\ o.body \notin TextBodies
           -> "UnicodeDecodeError"
      [] OTHER -> "none"

\* C12: no failure of the fetch, the read or the decoding leaves
\* pagasa_proxy: the handler always returns a value, and one log line naming
\* the cause is written when the response is the 500 error, none otherwise.
C12_CaughtAndLogged ==
    \A r \in Reqs :
        /\ pc[r] # "escaped"
        /\ Len(log[r]) <= 1
        /\ log[r] # <<>> => Answered(r, "pagasa_proxy")
        /\ Answered(r, "pagasa_proxy") =>
            /\ resp[r] # NoResponse
            /\ resp[r].status \in {200, 500}
            /\ Len(log[r]) = 1 <=> resp[r].status = 500
            /\ resp[r].status = 500 =>
                 log[r] = << <<"Proxy error", CauseOf(up[r])>> >> /\ CauseOf(up[r]) # "none"

\* C12's case: both requests failed, one while its body was read and one on
\* connecting, and each has its own line.
C12_Witness ==
    /\ Answered(1, "pagasa_proxy") /\ Answered(2, "pagasa_proxy")
    /\ log[1] = << <<"Proxy error", "IncompleteRead">> >>
    /\ log[2] = << <<"Proxy error", "URLError">> >>
    /\ resp[1].status = 500 /\ resp[2].status = 500

\* C13: the relay is all or nothing: after a body cut short or a body that
\* does not decode the response is the 500 error with nothing of the
\* upstream body in it, and a 200 response carries the whole upstream body.
C13_AllOrNothing ==
    \A r \in Reqs :
        Answered(r, "pagasa_proxy") =>
            /\ up[r].kind = "http" /\ up[r].status \in 200..299
                 /\ (up[r].cut \/ up[r].body \notin TextBodies) =>
                   resp[r] = TheError /\ resp[r].body = <<>>
            /\ resp[r].status = 200 =>
                 ~up[r].cut /\ resp[r].body = up[r].body

\* C13's case: two bytes of a three-byte body had arrived when the read
\* failed, and the error was sent.
C13_Witness ==
    /\ Answered(1, "pagasa_proxy")
    /\ up[1].cut /\ up[1].status = 200 /\ up[1].body = <<60, 195, 169>>
    /\ Received(up[1]) = <<60, 195>>
    /\ resp[1] = TheError

\* C14: a request given to pagasa_proxy is eventually answered, with 200 or
\* 500, once its upstream call ends; nothing is sent before the call ends,
\* a response once sent is the only one, and with no timeout set a request
\* whose upstream call never ends is never answered.
C14_AnsweredOnce ==
    /\ \A r \in Reqs :
        handler[r] = "pagasa_proxy" ~>
            (Answered(r, "pagasa_proxy") /\ resp[r].status \in {200, 500})
    /\ [](\A r \in Reqs :
            handler[r] = "pagasa_proxy" =>
                /\ pc[r] # "done" => resp[r] = NoResponse
                /\ up[r] = NoOutcome => resp[r] = NoResponse /\ pc[r] \in {"dispatched", "urlopen"})
    /\ [][\A r \in Reqs :
            /\ resp[r] # NoResponse => resp'[r] = resp[r]
            /\ pc[r] = "urlopen" /\ pc'[r] # "urlopen" => up'[r] # NoOutcome]_vars

\* C14's case: a request was answered after its upstream call ended, while
\* another is still waiting in urlopen with nothing sent.
C14_Witness ==
    /\ Answered(1, "pagasa_proxy") /\ up[1] # NoOutcome /\ resp[1].status = 200
    /\ handler[2] = "pagasa_proxy" /\ pc[2] = "urlopen" /\ resp[2] = NoResponse

====
